---- MODULE Spec2Model ----
(***************************************************************************)
(* Model of two components of the Matrix client SDK:                       *)
(*                                                                         *)
(*   - the authenticated request dispatcher, HttpClient                    *)
(*     (matrix_sdk/src/http_client.rs) with the error taxonomy it returns  *)
(*     (matrix_sdk/src/error.rs);                                          *)
(*   - the account store, SqliteStore (src/crypto/store/sqlite.rs).        *)
(*                                                                         *)
(* SpecHttp is the dispatcher: one dispatch call (send or upload) that is  *)
(* followed step by step, next to other in-flight requests that hold the   *)
(* Session read lock and a login/logout writer that swaps the Session.     *)
(* SpecStore is the store: instances opened one after another over one     *)
(* database file, and two tasks that call save_account and load_account.    *)
(***************************************************************************)
EXTENDS Integers, Sequences, FiniteSets, TLC

\* ------------------------------------------------------------------ bounds

\* Distinct Session values a login can install.
NumSessions == 2
\* Distinct UIAA challenges a server can send.
NumUiaaInfos == 2
\* Other in-flight requests that may hold the Session read lock at once.
MaxOtherReaders == 1
\* One-time keys an account generates before the model stops generating.
MaxOneTimeKeys == 1

VARIABLES
    \* HttpClient.session: Arc<RwLock<Option<Session>>>
    session,        \* the Option<Session> value in the lock
    rw_readers,     \* holders of a read guard: the dispatch call and other requests
    rw_writer,      \* TRUE while a write guard is held
    \* the login/logout writer
    wpc,            \* "idle" | "locked" | "half"
    wnew,           \* the Session value being installed
    committed,      \* the last Session value installed whole
    \* the dispatch call that is followed
    pc,             \* "idle" | "start" | "guarded" | "inflight" | "done"
    req,            \* the typed request and the path that dispatches it
    acquired,       \* TRUE once this call took a Session guard
    seen,           \* the Session value this call read under its guard
    current,        \* the committed Session at the moment of that read
    calls,          \* how often this call invoked HttpSend::send_request
    env,            \* the http::Request handed to the transport
    resp,           \* what the transport returned
    result,         \* what the call returned to its caller
    \* the database file
    table,          \* TRUE once the account table exists
    rows,           \* the rows of the account table, in insertion order
    \* the SqliteStore instance and its connection mutex
    store,          \* Closed, or user_id, device_id, pickle_passphrase
    connection,     \* the task that holds the connection mutex, or NoTask
    \* in-memory accounts and their mutexes
    account,        \* per account: its value
    account_lock,   \* per account: the task that holds the mutex, or NoTask
    \* the tasks
    tpc,            \* per task: where it is in its call
    call,           \* per task: the operation and its arguments
    holds,          \* per task: the account whose guard its own code holds
    pickle,         \* per task: the pickle save_account computed
    ret,            \* per task: what the call returned
    after_save,     \* per task: load_account was called after an Ok save
                    \* on this instance, and no save ran since
    last_saved,     \* the account the last Ok save on this instance was given
    first_write     \* per key: what the save that created the row wrote

http_vars == <<session, rw_readers, rw_writer, wpc, wnew, committed,
               pc, req, acquired, seen, current, calls, env, resp, result>>

store_vars == <<table, rows, store, connection, account,
                account_lock, tpc, call, holds, pickle, ret, after_save,
                last_saved, first_write>>

vars == <<http_vars, store_vars>>

\* ------------------------------------------------------------- Session

Null == [null |-> TRUE]

\* Option<Session>::None
NoSession == [some |-> FALSE, user_id |-> 0, access_token |-> 0]

\* Some(Session { user_id, access_token, .. }), the i-th login
SessionOf(i) == [some |-> TRUE, user_id |-> i, access_token |-> i]

WholeSessions == {NoSession} \cup {SessionOf(i) : i \in 1..NumSessions}

\* ------------------------------------------------------------ requests

AuthSchemes == {"AccessToken", "None", "ServerSignatures"}

Methods == {"GET", "POST", "PUT", "DELETE"}

JSON == "application/json"

NoContentType == "none"

\* The content-type headers try_into_http_request itself sets: none, or the
\* one the request carries as a header field.
OwnContentTypes == {<< >>, <<"image/png">>}

\* Request::EndpointError of the request type
EndpointErrors == {"UiaaError", "RumaClientError"}

\* Any OutgoingRequest can be passed to send.
SendRequests ==
    [via : {"send"}, scheme : AuthSchemes, method : Methods,
     own_ct : OwnContentTypes, endpoint_error : EndpointErrors,
     into_http_ok : BOOLEAN]

\* upload takes create_content::Request: POST, authenticated.
UploadRequests ==
    [via : {"upload"}, scheme : {"AccessToken"}, method : {"POST"},
     own_ct : OwnContentTypes, endpoint_error : {"RumaClientError"},
     into_http_ok : BOOLEAN]

\* The content_type argument each path passes to send_request.
ContentTypeArg(via) == IF via = "send" THEN JSON ELSE NoContentType

\* ---------------------------------------------------------- error model

Ok(v) == [ok |-> TRUE, value |-> v]

Err(kind, inner) == [ok |-> FALSE, kind |-> kind, inner |-> inner]

AuthenticationRequired == Err("AuthenticationRequired", Null)

NotClientRequest == Err("NotClientRequest", Null)

\* From<RumaIntoHttpError> for Error
FromIntoHttpError == Err("IntoHttp", Null)

\* From<ReqwestError> for Error
FromReqwestError == Err("Reqwest", Null)

\* The UIAA conversion, had it produced the generic response error kind.
FromUiaaResponseError_AsRumaResponse(error) == Err("RumaResponse", error)

\* From<RumaResponseError<UiaaError>> for Error
FromUiaaResponseError(error) == Err("UiaaError", error)

\* From<RumaResponseError<RumaClientError>> for Error
FromRumaResponseError(error) == Err("RumaResponse", error)

\* The accessor, had it found no challenge in any error.
uiaa_response_None(r) == [some |-> FALSE]

\* Error::uiaa_response: Some(info) or None
uiaa_response(r) ==
    IF /\ ~r.ok
       /\ r.kind = "UiaaError"
       /\ r.inner.layer = "Http"
       /\ r.inner.server = "Known"
       /\ r.inner.error.variant = "AuthResponse"
    THEN [some |-> TRUE, info |-> r.inner.error.info]
    ELSE [some |-> FALSE]

\* ------------------------------------------------------------ responses

UiaaInfos == 1..NumUiaaInfos

Bodies ==
    {[shape |-> "response"], [shape |-> "garbage"], [shape |-> "error"]}
    \cup {[shape |-> "uiaa", info |-> i] : i \in UiaaInfos}

\* What HttpSend::send_request can return: an error of the transport, or an
\* http::Response with a status and a body.
TransportError == [kind |-> "error"]

HttpResponses == [kind : {"http"}, status : {200, 401, 403}, body : Bodies]

TransportResults == {TransportError} \cup HttpResponses

\* EndpointError::try_from_response for the two endpoint error types: the
\* server's error as the type knows it, or the response it could not read.
ServerErrorOf(endpoint_error, r) ==
    IF endpoint_error = "UiaaError" /\ r.status = 401 /\ r.body.shape = "uiaa"
    THEN [layer |-> "Http", server |-> "Known",
          error |-> [variant |-> "AuthResponse", info |-> r.body.info]]
    ELSE IF r.body.shape = "error"
    THEN [layer |-> "Http", server |-> "Known",
          error |-> [variant |-> "MatrixError"]]
    ELSE [layer |-> "Http", server |-> "Unknown"]

\* IncomingResponse::try_from(http::Response): the typed response, or a
\* FromHttpResponseError<EndpointError>.
TryFromResponse(endpoint_error, r) ==
    IF r.status < 400
    THEN IF r.body.shape = "response"
         THEN [ok |-> TRUE]
         ELSE [ok |-> FALSE, error |-> [layer |-> "Deserialization"]]
    ELSE [ok |-> FALSE, error |-> ServerErrorOf(endpoint_error, r)]

\* The `?` after try_from: Error: From<FromHttpResponseError<EndpointError>>
FromResponseError(endpoint_error, error) ==
    IF endpoint_error = "UiaaError"
    THEN FromUiaaResponseError(error)
    ELSE FromRumaResponseError(error)

\* ---------------------------------------------------- HttpClient, pure

\* The match, had it asked for a token for every scheme but None.
AuthResolution_TokenUnlessNone(scheme) ==
    IF scheme = "None" THEN "no_token" ELSE "read_session"

\* The match, had it read the Session for the scheme None as well.
AuthResolution_ReadUnlessOther(scheme) ==
    IF scheme \in {"AccessToken", "None"}
    THEN "read_session" ELSE "not_client_request"

\* send_request, `match Request::METADATA.authentication`
AuthResolution(scheme) ==
    CASE scheme = "AccessToken" -> "read_session"
      [] scheme = "None"        -> "no_token"
      [] OTHER                   -> "not_client_request"

\* The token read, had it not checked that a Session is there.
AccessTokenOf_Unchecked(s) == Ok(s.access_token)

\* send_request, `if let Some(session) = read_guard.as_ref()`
AccessTokenOf(s) ==
    IF s.some THEN Ok(s.access_token) ELSE AuthenticationRequired

\* send_request, the content-type step: the headers of the request after it
AttachContentType(method, headers, content_type) ==
    IF method \in {"POST", "PUT", "DELETE"} /\ content_type # NoContentType
    THEN Append(headers, content_type)
    ELSE headers

\* request.try_into_http_request(homeserver, access_token), then the
\* content-type step
HttpRequest(r, access_token) ==
    [method |-> r.method,
     access_token |-> access_token,
     content_type |-> AttachContentType(r.method, r.own_ct,
                                        ContentTypeArg(r.via))]

NoToken == [some |-> FALSE]

SomeToken(t) == [some |-> TRUE, token |-> t]

\* send and upload, had they decoded an empty response after an error of
\* the transport.
Decode_ErrorSwallowed(r, response) ==
    IF response.kind = "error"
    THEN Ok(Null)
    ELSE LET d == TryFromResponse(r.endpoint_error, response)
         IN  IF d.ok THEN Ok(Null)
             ELSE FromResponseError(r.endpoint_error, d.error)

\* send and upload after send_request returned: the `?`, then try_from
Decode(r, response) ==
    IF response.kind = "error"
    THEN FromReqwestError
    ELSE LET d == TryFromResponse(r.endpoint_error, response)
         IN  IF d.ok THEN Ok(Null)
             ELSE FromResponseError(r.endpoint_error, d.error)

\* The dispatch call's name among the holders of read guards; the other
\* requests are 1..MaxOtherReaders.
Dispatch == 0

\* The read guard, had it been a temporary dropped right after the await.
ReadGuard_Dropped(readers) == readers

\* The read guard of session.read().await
ReadGuard(readers) == readers \cup {Dispatch}

\* ------------------------------------------------- HttpClient, actions

lock_vars == <<session, rw_readers, rw_writer, wpc, wnew, committed>>

\* A caller enters send with some request.
send ==
    /\ pc = "idle"
    /\ \E r \in SendRequests : req' = r
    /\ pc' = "start"
    /\ UNCHANGED <<lock_vars, acquired, seen, current, calls, env, resp, result>>
    /\ UNCHANGED store_vars

\* A caller enters upload with a create_content request.
upload ==
    /\ pc = "idle"
    /\ \E r \in UploadRequests : req' = r
    /\ pc' = "start"
    /\ UNCHANGED <<lock_vars, acquired, seen, current, calls, env, resp, result>>
    /\ UNCHANGED store_vars

\* AuthScheme::AccessToken: session.read().await returns the guard.
session_read ==
    /\ pc = "start"
    /\ AuthResolution(req.scheme) = "read_session"
    /\ ~rw_writer
    /\ rw_readers' = ReadGuard(rw_readers)
    /\ acquired' = TRUE
    /\ pc' = "guarded"
    /\ UNCHANGED <<session, rw_writer, wpc, wnew, committed,
                   req, seen, current, calls, env, resp, result>>
    /\ UNCHANGED store_vars

\* The rest of send_request once the token is resolved: build the request,
\* drop the guard at the end of the block, attach the content type and call
\* the transport.
HandToTransport(token) ==
    IF req.into_http_ok
    THEN /\ env' = HttpRequest(req, token)
         /\ calls' = calls + 1
         /\ pc' = "inflight"
         /\ UNCHANGED result
    ELSE /\ result' = FromIntoHttpError
         /\ pc' = "done"
         /\ UNCHANGED <<env, calls>>

\* Under the guard, had the guard been kept over the call of the transport.
with_access_token_GuardKept ==
    /\ pc = "guarded"
    /\ seen' = session
    /\ current' = committed
    /\ LET token == AccessTokenOf(session)
       IN  IF token.ok
           THEN /\ HandToTransport(SomeToken(token.value))
                /\ UNCHANGED rw_readers
           ELSE /\ result' = token
                /\ pc' = "done"
                /\ rw_readers' = rw_readers \ {Dispatch}
                /\ UNCHANGED <<env, calls>>
    /\ UNCHANGED <<session, rw_writer, wpc, wnew, committed,
                   req, acquired, resp>>
    /\ UNCHANGED store_vars

\* Under the guard: no Session, or its token, the request and the transport.
with_access_token ==
    /\ pc = "guarded"
    /\ seen' = session
    /\ current' = committed
    /\ rw_readers' = rw_readers \ {Dispatch}
    /\ LET token == AccessTokenOf(session)
       IN  IF token.ok
           THEN HandToTransport(SomeToken(token.value))
           ELSE /\ result' = token
                /\ pc' = "done"
                /\ UNCHANGED <<env, calls>>
    /\ UNCHANGED <<session, rw_writer, wpc, wnew, committed,
                   req, acquired, resp>>
    /\ UNCHANGED store_vars

\* AuthScheme::None: no token, no lock.
without_token ==
    /\ pc = "start"
    /\ AuthResolution(req.scheme) = "no_token"
    /\ HandToTransport(NoToken)
    /\ UNCHANGED <<lock_vars, req, acquired, seen, current, resp>>
    /\ UNCHANGED store_vars

\* Any other scheme.
not_client_request ==
    /\ pc = "start"
    /\ AuthResolution(req.scheme) = "not_client_request"
    /\ result' = NotClientRequest
    /\ pc' = "done"
    /\ UNCHANGED <<lock_vars, req, acquired, seen, current, calls, env, resp>>
    /\ UNCHANGED store_vars

\* The transport's future completes, had send_request called the transport
\* again after an error of the transport.
transport_returns_Retry ==
    /\ pc = "inflight"
    /\ \E r \in TransportResults :
         /\ resp' = r
         /\ IF r = TransportError
            THEN calls' = calls + 1 /\ pc' = "inflight" /\ UNCHANGED result
            ELSE calls' = calls /\ pc' = "done" /\ result' = Decode(req, r)
    /\ UNCHANGED <<lock_vars, req, acquired, seen, current, env>>
    /\ UNCHANGED store_vars

\* The transport's future completes; send or upload decodes and returns.
transport_returns ==
    /\ pc = "inflight"
    /\ \E r \in TransportResults :
         /\ resp' = r
         /\ result' = Decode(req, r)
    /\ pc' = "done"
    /\ UNCHANGED <<lock_vars, req, acquired, seen, current, calls, env>>
    /\ UNCHANGED store_vars

\* The caller has the result; the next call can start.
returned ==
    /\ pc = "done"
    /\ pc' = "idle"
    /\ req' = Null
    /\ acquired' = FALSE
    /\ seen' = Null
    /\ current' = Null
    /\ calls' = 0
    /\ env' = Null
    /\ resp' = Null
    /\ result' = Null
    /\ UNCHANGED lock_vars
    /\ UNCHANGED store_vars

dispatch_vars == <<pc, req, acquired, seen, current, calls, env, resp, result>>

\* Another in-flight request takes and drops a read guard.
OtherReaders == 1..MaxOtherReaders

other_read(o) ==
    /\ o \notin rw_readers
    /\ ~rw_writer
    /\ rw_readers' = rw_readers \cup {o}
    /\ UNCHANGED <<session, rw_writer, wpc, wnew, committed, dispatch_vars>>
    /\ UNCHANGED store_vars

other_release(o) ==
    /\ o \in rw_readers
    /\ rw_readers' = rw_readers \ {o}
    /\ UNCHANGED <<session, rw_writer, wpc, wnew, committed, dispatch_vars>>
    /\ UNCHANGED store_vars

\* Login, re-login or logout: session.write().await returns the guard.
session_write ==
    /\ wpc = "idle"
    /\ ~rw_writer
    /\ rw_readers = {}
    /\ rw_writer' = TRUE
    /\ \E s \in WholeSessions \ {session} : wnew' = s
    /\ wpc' = "locked"
    /\ UNCHANGED <<session, rw_readers, committed, dispatch_vars>>
    /\ UNCHANGED store_vars

\* The swap, as the memory sees it: first the token is overwritten ...
swap_begin ==
    /\ wpc = "locked"
    /\ session' = [session EXCEPT !.access_token = wnew.access_token]
    /\ wpc' = "half"
    /\ UNCHANGED <<rw_readers, rw_writer, wnew, committed, dispatch_vars>>
    /\ UNCHANGED store_vars

\* ... then the rest, and the write guard is dropped.
swap_end ==
    /\ wpc = "half"
    /\ session' = wnew
    /\ committed' = wnew
    /\ rw_writer' = FALSE
    /\ wnew' = Null
    /\ wpc' = "idle"
    /\ UNCHANGED <<rw_readers, dispatch_vars>>
    /\ UNCHANGED store_vars

NextHttp ==
    \/ send
    \/ upload
    \/ session_read
    \/ with_access_token
    \/ without_token
    \/ not_client_request
    \/ transport_returns
    \/ returned
    \/ \E o \in OtherReaders : other_read(o)
    \/ \E o \in OtherReaders : other_release(o)
    \/ session_write
    \/ swap_begin
    \/ swap_end

\* ------------------------------------------------------- Account, pickle

\* The tasks that call into the store.
Tasks == {"t1", "t2"}

\* The in-memory accounts (Arc<Mutex<Account>>) the tasks share.
AccountIds == {"a1", "a2"}

NoTask == "none"

NoAccount == "none"

UserIds == {"@alice:example.org"}

DeviceIds == {"DEVICE1"}

NoPassphrase == "none"

Passphrases == {"p1", "p2"}

\* PicklingMode
Unencrypted == [encrypted |-> FALSE, key |-> NoPassphrase]

Encrypted(key) == [encrypted |-> TRUE, key |-> key]

\* The in-memory accounts at the start: each has its own identity keys; the
\* first is new (Account::new(): shared is false), the others have
\* published their keys.
InitialAccount(a) ==
    [identity |-> a, one_time_keys |-> 0, shared |-> a # "a1"]

\* Account::pickle(mode): the account's key material under the mode's key.
\* The shared flag is not part of the pickle.
Pickle(acc, mode) ==
    [identity |-> acc.identity, one_time_keys |-> acc.one_time_keys,
     mode |-> mode]

\* Account::from_pickle(pickle, mode, shared): fails under any other mode
from_pickle(p, mode, shared) ==
    IF p.mode = mode
    THEN Ok([identity |-> p.identity, one_time_keys |-> p.one_time_keys,
             shared |-> shared])
    ELSE Err("OlmAccountError", Null)

\* ------------------------------------------------------ SqliteStore, pure

\* A call that did not return: `.unwrap()` on an Err unwinds the caller.
Panic == [ok |-> FALSE, kind |-> "panic", inner |-> Null]

\* Result::unwrap
Unwrap(r) == IF r.ok THEN r ELSE Panic

Closed == [state |-> "closed"]

\* SqliteStore::get_pickle_mode
get_pickle_mode(st) ==
    IF st.pickle_passphrase # NoPassphrase
    THEN Encrypted(st.pickle_passphrase)
    ELSE Unencrypted

Key(st) == <<st.user_id, st.device_id>>

Keys == UserIds \X DeviceIds

RowKey(row) == <<row.user_id, row.device_id>>

RowsOf(rs, key) == {i \in 1..Len(rs) : RowKey(rs[i]) = key}

\* create_tables: CREATE TABLE IF NOT EXISTS account (...)
CreateTable(exists, rs) ==
    IF exists THEN Ok(rs) ELSE Ok(<< >>)

\* load_account: SELECT pickle, shared FROM account WHERE user_id = ? and
\* device_id = ?, fetch_one
FetchOne(rs, key) ==
    IF RowsOf(rs, key) = {}
    THEN Err("RowNotFound", Null)
    ELSE LET i == CHOOSE i \in RowsOf(rs, key) :
                      \A j \in RowsOf(rs, key) : i <= j
         IN  Ok(rs[i])

\* save_account: the value bound to the shared column
SharedColumn(acc) == TRUE

\* The insert, had it been INSERT OR REPLACE.
InsertOrReplace(rs, row) ==
    IF RowsOf(rs, RowKey(row)) # {}
    THEN Ok([i \in 1..Len(rs) |->
                IF RowKey(rs[i]) = RowKey(row) THEN row ELSE rs[i]])
    ELSE Ok(Append(rs, row))

\* The insert, had the table had no UNIQUE(user_id, device_id).
InsertPlain(rs, row) == Ok(Append(rs, row))

\* save_account: INSERT OR IGNORE INTO account (...) under
\* UNIQUE(user_id, device_id)
InsertOrIgnore(rs, row) ==
    IF RowsOf(rs, RowKey(row)) # {} THEN Ok(rs) ELSE Ok(Append(rs, row))

\* load_account after the guard is taken: the query, the unpickling and the
\* two unwraps
LoadAccount(st, rs) ==
    LET fetched == Unwrap(FetchOne(rs, Key(st)))
    IN  IF ~fetched.ok THEN fetched
        ELSE LET acc == Unwrap(from_pickle(fetched.value.pickle,
                                           get_pickle_mode(st),
                                           fetched.value.shared))
             IN  IF ~acc.ok THEN acc ELSE Ok(acc.value)

\* --------------------------------------------------- SqliteStore, actions

db_vars == <<table, rows>>

ghost_vars == <<after_save, last_saved, first_write>>

\* open / open_with_passphrase -> open_helper: connect, build the store and
\* enter create_tables, which takes the fresh connection's mutex.
open_helper(t) ==
    /\ tpc[t] = "idle"
    /\ store = Closed
    /\ \E u \in UserIds, d \in DeviceIds, p \in {NoPassphrase} \cup Passphrases :
         store' = [state |-> "opening",
                   user_id |-> u, device_id |-> d, pickle_passphrase |-> p]
    /\ connection' = t
    /\ call' = [call EXCEPT ![t] = [op |-> "open"]]
    /\ tpc' = [tpc EXCEPT ![t] = "create_tables"]
    /\ UNCHANGED <<db_vars, account, account_lock, holds, pickle, ret,
                   ghost_vars>>
    /\ UNCHANGED http_vars

\* create_tables executes, the guard drops and open_helper returns the store.
create_tables(t) ==
    /\ tpc[t] = "create_tables"
    /\ LET created == Unwrap(CreateTable(table, rows))
       IN  /\ connection' = NoTask
           /\ IF created.ok
              THEN /\ table' = TRUE
                   /\ rows' = created.value
                   /\ store' = [store EXCEPT !.state = "open"]
                   /\ ret' = [ret EXCEPT ![t] = Ok(Null)]
              ELSE /\ store' = Closed
                   /\ ret' = [ret EXCEPT ![t] = created]
                   /\ UNCHANGED db_vars
    /\ tpc' = [tpc EXCEPT ![t] = "done"]
    /\ UNCHANGED <<account, account_lock, call, holds, pickle,
                   ghost_vars>>
    /\ UNCHANGED http_vars

\* The store is dropped once no call borrows it; the file stays.
drop_store ==
    /\ store.state = "open"
    /\ \A t \in Tasks : tpc[t] = "idle"
    /\ store' = Closed
    /\ last_saved' = Null
    /\ UNCHANGED <<db_vars, connection, account, account_lock, tpc,
                   call, holds, pickle, ret, after_save, first_write>>
    /\ UNCHANGED http_vars

\* A task calls save_account(account) on the open store.
save_account(t) ==
    /\ tpc[t] = "idle"
    /\ store.state = "open"
    /\ \E a \in AccountIds :
         call' = [call EXCEPT ![t] = [op |-> "save", account |-> a]]
    /\ tpc' = [tpc EXCEPT ![t] = "save_lock_account"]
    /\ UNCHANGED <<db_vars, store, connection, account, account_lock,
                   holds, pickle, ret, ghost_vars>>
    /\ UNCHANGED http_vars

\* save_account, had the account's guard been a temporary of the pickle
\* expression, dropped before the connection is locked.
save_pickle_GuardDropped(t) ==
    /\ tpc[t] = "save_lock_account"
    /\ LET a == call[t].account
       IN  /\ account_lock[a] = NoTask
           /\ pickle' = [pickle EXCEPT ![t] =
                            Pickle(account[a], get_pickle_mode(store))]
    /\ tpc' = [tpc EXCEPT ![t] = "save_lock_connection"]
    /\ UNCHANGED <<db_vars, store, connection, account, account_lock, call,
                   holds, ret, ghost_vars>>
    /\ UNCHANGED http_vars

\* account.lock().await returns; the account is pickled.
save_pickle(t) ==
    /\ tpc[t] = "save_lock_account"
    /\ LET a == call[t].account
       IN  /\ account_lock[a] = NoTask
           /\ account_lock' = [account_lock EXCEPT ![a] = t]
           /\ pickle' = [pickle EXCEPT ![t] =
                            Pickle(account[a], get_pickle_mode(store))]
    /\ tpc' = [tpc EXCEPT ![t] = "save_lock_connection"]
    /\ UNCHANGED <<db_vars, store, connection, account, call, holds,
                   ret, ghost_vars>>
    /\ UNCHANGED http_vars

\* self.connection.lock().await returns; the insert is sent.
save_lock_connection(t) ==
    /\ tpc[t] = "save_lock_connection"
    /\ connection = NoTask
    /\ connection' = t
    /\ tpc' = [tpc EXCEPT ![t] = "save_execute"]
    /\ UNCHANGED <<db_vars, store, account, account_lock, call, holds,
                   pickle, ret, ghost_vars>>
    /\ UNCHANGED http_vars

\* The insert executes; save_account drops both guards and returns.
save_execute(t) ==
    /\ tpc[t] = "save_execute"
    /\ LET a == call[t].account
           row == [user_id |-> store.user_id,
                   device_id |-> store.device_id,
                   pickle |-> pickle[t],
                   shared |-> SharedColumn(account[a])]
           done == Unwrap(InsertOrIgnore(rows, row))
       IN  /\ connection' = NoTask
           /\ account_lock' = [account_lock EXCEPT ![a] = NoTask]
           /\ IF done.ok
              THEN /\ rows' = done.value
                   /\ ret' = [ret EXCEPT ![t] = Ok(Null)]
                   /\ last_saved' = account[a]
                   /\ after_save' = [u \in Tasks |->
                        IF tpc[u] \in {"load_lock_connection", "load_execute"}
                        THEN FALSE ELSE after_save[u]]
                   /\ first_write' =
                        IF first_write[RowKey(row)] = Null
                        THEN [first_write EXCEPT ![RowKey(row)] =
                                [account |-> account[a], row |-> row]]
                        ELSE first_write
              ELSE /\ ret' = [ret EXCEPT ![t] = done]
                   /\ UNCHANGED <<rows, ghost_vars>>
    /\ tpc' = [tpc EXCEPT ![t] = "done"]
    /\ UNCHANGED <<table, store, account, call, holds, pickle>>
    /\ UNCHANGED http_vars

\* A task calls load_account on the open store.
load_account(t) ==
    /\ tpc[t] = "idle"
    /\ store.state = "open"
    /\ call' = [call EXCEPT ![t] = [op |-> "load"]]
    /\ after_save' = [after_save EXCEPT ![t] = last_saved # Null]
    /\ tpc' = [tpc EXCEPT ![t] = "load_lock_connection"]
    /\ UNCHANGED <<db_vars, store, connection, account, account_lock,
                   holds, pickle, ret, last_saved, first_write>>
    /\ UNCHANGED http_vars

\* load_account, had it waited for the accounts' locks before the
\* connection's.
load_lock_connection_AfterAccount(t) ==
    /\ tpc[t] = "load_lock_connection"
    /\ \A a \in AccountIds : account_lock[a] = NoTask
    /\ connection = NoTask
    /\ connection' = t
    /\ tpc' = [tpc EXCEPT ![t] = "load_execute"]
    /\ UNCHANGED <<db_vars, store, account, account_lock, call, holds,
                   pickle, ret, ghost_vars>>
    /\ UNCHANGED http_vars

\* load_account, had it sent the query without taking the connection's
\* guard.
load_lock_connection_NoGuard(t) ==
    /\ tpc[t] = "load_lock_connection"
    /\ tpc' = [tpc EXCEPT ![t] = "load_execute"]
    /\ UNCHANGED <<db_vars, store, connection, account, account_lock, call,
                   holds, pickle, ret, ghost_vars>>
    /\ UNCHANGED http_vars

\* self.connection.lock().await returns; the query is sent.
load_lock_connection(t) ==
    /\ tpc[t] = "load_lock_connection"
    /\ connection = NoTask
    /\ connection' = t
    /\ tpc' = [tpc EXCEPT ![t] = "load_execute"]
    /\ UNCHANGED <<db_vars, store, account, account_lock, call, holds,
                   pickle, ret, ghost_vars>>
    /\ UNCHANGED http_vars

\* The query returns; load_account unpickles, drops the guard and returns or
\* unwinds.
load_execute(t) ==
    /\ tpc[t] = "load_execute"
    /\ ret' = [ret EXCEPT ![t] = LoadAccount(store, rows)]
    /\ connection' = NoTask
    /\ tpc' = [tpc EXCEPT ![t] = "done"]
    /\ UNCHANGED <<db_vars, store, account, account_lock, call, holds,
                   pickle, ghost_vars>>
    /\ UNCHANGED http_vars

\* The caller has the result, or a task takes the place of one that unwound.
store_returned(t) ==
    /\ tpc[t] = "done"
    /\ tpc' = [tpc EXCEPT ![t] = "idle"]
    /\ call' = [call EXCEPT ![t] = Null]
    /\ pickle' = [pickle EXCEPT ![t] = Null]
    /\ ret' = [ret EXCEPT ![t] = Null]
    /\ after_save' = [after_save EXCEPT ![t] = FALSE]
    /\ UNCHANGED <<db_vars, store, connection, account, account_lock,
                   holds, last_saved, first_write>>
    /\ UNCHANGED http_vars

\* A task's own code takes an account's guard (account.lock().await) ...
lock_account(t) ==
    /\ tpc[t] = "idle"
    /\ holds[t] = NoAccount
    /\ \E a \in AccountIds :
         /\ account_lock[a] = NoTask
         /\ account_lock' = [account_lock EXCEPT ![a] = t]
         /\ holds' = [holds EXCEPT ![t] = a]
    /\ UNCHANGED <<db_vars, store, connection, account, tpc, call,
                   pickle, ret, ghost_vars>>
    /\ UNCHANGED http_vars

\* ... uses the account, which generates a one-time key ...
generate_one_time_keys(t) ==
    /\ tpc[t] = "idle"
    /\ holds[t] # NoAccount
    /\ account[holds[t]].one_time_keys < MaxOneTimeKeys
    /\ account' = [account EXCEPT ![holds[t]].one_time_keys = @ + 1]
    /\ UNCHANGED <<db_vars, store, connection, account_lock, tpc,
                   call, holds, pickle, ret, ghost_vars>>
    /\ UNCHANGED http_vars

\* ... and drops the guard.
unlock_account(t) ==
    /\ tpc[t] = "idle"
    /\ holds[t] # NoAccount
    /\ account_lock' = [account_lock EXCEPT ![holds[t]] = NoTask]
    /\ holds' = [holds EXCEPT ![t] = NoAccount]
    /\ UNCHANGED <<db_vars, store, connection, account, tpc, call,
                   pickle, ret, ghost_vars>>
    /\ UNCHANGED http_vars

NextStore ==
    \/ \E t \in Tasks : open_helper(t)
    \/ \E t \in Tasks : create_tables(t)
    \/ drop_store
    \/ \E t \in Tasks : save_account(t)
    \/ \E t \in Tasks : save_pickle(t)
    \/ \E t \in Tasks : save_lock_connection(t)
    \/ \E t \in Tasks : save_execute(t)
    \/ \E t \in Tasks : load_account(t)
    \/ \E t \in Tasks : load_lock_connection(t)
    \/ \E t \in Tasks : load_execute(t)
    \/ \E t \in Tasks : store_returned(t)
    \/ \E t \in Tasks : lock_account(t)
    \/ \E t \in Tasks : generate_one_time_keys(t)
    \/ \E t \in Tasks : unlock_account(t)

\* ------------------------------------------------------- specifications

\* The dispatcher starts with or without a restored Session and no call in
\* progress; the store is at rest.
InitHttp ==
    /\ session \in {NoSession, SessionOf(1)}
    /\ committed = session
    /\ rw_readers = {}
    /\ rw_writer = FALSE
    /\ wpc = "idle"
    /\ wnew = Null
    /\ pc = "idle"
    /\ req = Null
    /\ acquired = FALSE
    /\ seen = Null
    /\ current = Null
    /\ calls = 0
    /\ env = Null
    /\ resp = Null
    /\ result = Null
    /\ table = FALSE
    /\ rows = << >>
    /\ store = Closed
    /\ connection = NoTask
    /\ account = [a \in AccountIds |-> InitialAccount(a)]
    /\ account_lock = [a \in AccountIds |-> NoTask]
    /\ tpc = [t \in Tasks |-> "idle"]
    /\ call = [t \in Tasks |-> Null]
    /\ holds = [t \in Tasks |-> NoAccount]
    /\ pickle = [t \in Tasks |-> Null]
    /\ ret = [t \in Tasks |-> Null]
    /\ after_save = [t \in Tasks |-> FALSE]
    /\ last_saved = Null
    /\ first_write = [k \in Keys |-> Null]

\* The store starts with no database file, no instance and idle tasks; the
\* dispatcher is at rest.
InitStore ==
    /\ table = FALSE
    /\ rows = << >>
    /\ store = Closed
    /\ connection = NoTask
    /\ account = [a \in AccountIds |-> InitialAccount(a)]
    /\ account_lock = [a \in AccountIds |-> NoTask]
    /\ tpc = [t \in Tasks |-> "idle"]
    /\ call = [t \in Tasks |-> Null]
    /\ holds = [t \in Tasks |-> NoAccount]
    /\ pickle = [t \in Tasks |-> Null]
    /\ ret = [t \in Tasks |-> Null]
    /\ after_save = [t \in Tasks |-> FALSE]
    /\ last_saved = Null
    /\ first_write = [k \in Keys |-> Null]
    /\ session = NoSession
    /\ committed = NoSession
    /\ rw_readers = {}
    /\ rw_writer = FALSE
    /\ wpc = "idle"
    /\ wnew = Null
    /\ pc = "idle"
    /\ req = Null
    /\ acquired = FALSE
    /\ seen = Null
    /\ current = Null
    /\ calls = 0
    /\ env = Null
    /\ resp = Null
    /\ result = Null

SpecHttp == InitHttp /\ [][NextHttp]_vars

SpecStore == InitStore /\ [][NextStore]_vars

\* The calls of one store instance: the store was opened without a
\* passphrase over an empty path and stays open while its tasks save, load
\* and take and drop the accounts' guards.
InitCalls ==
    /\ table = TRUE
    /\ rows = << >>
    /\ store \in {[state |-> "open", user_id |-> u, device_id |-> d,
                    pickle_passphrase |-> p] :
                      u \in UserIds, d \in DeviceIds, p \in {NoPassphrase}}
    /\ connection = NoTask
    /\ account = [a \in AccountIds |-> InitialAccount(a)]
    /\ account_lock = [a \in AccountIds |-> NoTask]
    /\ tpc = [t \in Tasks |-> "idle"]
    /\ call = [t \in Tasks |-> Null]
    /\ holds = [t \in Tasks |-> NoAccount]
    /\ pickle = [t \in Tasks |-> Null]
    /\ ret = [t \in Tasks |-> Null]
    /\ after_save = [t \in Tasks |-> FALSE]
    /\ last_saved = Null
    /\ first_write = [k \in Keys |-> Null]
    /\ session = NoSession
    /\ committed = NoSession
    /\ rw_readers = {}
    /\ rw_writer = FALSE
    /\ wpc = "idle"
    /\ wnew = Null
    /\ pc = "idle"
    /\ req = Null
    /\ acquired = FALSE
    /\ seen = Null
    /\ current = Null
    /\ calls = 0
    /\ env = Null
    /\ resp = Null
    /\ result = Null

NextCalls ==
    \/ \E t \in Tasks : save_account(t)
    \/ \E t \in Tasks : save_pickle(t)
    \/ \E t \in Tasks : save_lock_connection(t)
    \/ \E t \in Tasks : save_execute(t)
    \/ \E t \in Tasks : load_account(t)
    \/ \E t \in Tasks : load_lock_connection(t)
    \/ \E t \in Tasks : load_execute(t)
    \/ \E t \in Tasks : store_returned(t)
    \/ \E t \in Tasks : lock_account(t)
    \/ \E t \in Tasks : unlock_account(t)

\* Scheduling of the store's tasks: a task that can run does run, the
\* mutexes hand the lock to each waiter in turn, a caller goes on after its
\* call returned, and a task that holds an account's guard in its own code
\* drops it.
FairCalls ==
    \A t \in Tasks :
        /\ SF_vars(save_pickle(t))
        /\ SF_vars(save_lock_connection(t))
        /\ WF_vars(save_execute(t))
        /\ SF_vars(load_lock_connection(t))
        /\ WF_vars(load_execute(t))
        /\ WF_vars(store_returned(t))
        /\ SF_vars(unlock_account(t))

SpecCalls == InitCalls /\ [][NextCalls]_vars /\ FairCalls

\* ----------------------------------------------------- claims, dispatcher

\* C1: an AccessToken request dispatched (send or upload) while the Session
\* is absent returns exactly AuthenticationRequired, and the transport is
\* not invoked for it.
C1_AuthenticationRequired ==
    (req # Null /\ req.scheme = "AccessToken" /\ seen = NoSession)
        => /\ pc = "done"
           /\ result = AuthenticationRequired
           /\ calls = 0
           /\ env = Null

C1_Witness ==
    /\ pc = "done"
    /\ req.scheme = "AccessToken"
    /\ req.via = "upload"
    /\ seen = NoSession
    /\ result = AuthenticationRequired

\* C7: the request handed to the transport for an AccessToken request
\* carries the access token of one whole Session value, the one that was
\* current when the dispatcher read it, also while a login/logout swap runs.
C7_TokenOfOneSession ==
    (req # Null /\ req.scheme = "AccessToken" /\ env # Null)
        => /\ seen \in WholeSessions
           /\ seen.some
           /\ seen = current
           /\ env.access_token = SomeToken(seen.access_token)

\* A swap is half done while the request is in flight with the old token.
C7_Witness ==
    /\ pc = "inflight"
    /\ req.scheme = "AccessToken"
    /\ wpc = "half"
    /\ session \notin WholeSessions
    /\ env.access_token = SomeToken(seen.access_token)
    /\ seen # wnew

\* The content types the claim C8 expects on the request handed over.
C8_Expected(r) ==
    IF r.method \in {"POST", "PUT", "DELETE"} /\ r.via = "send"
    THEN IF r.own_ct = << >> THEN <<JSON>> ELSE r.own_ct
    ELSE r.own_ct

\* C8: a POST, PUT or DELETE request reaches the transport with one
\* content type: application/json when it went through send and had none
\* of its own, otherwise the one it already had; upload and the other
\* methods get none added.
C8_OneContentType ==
    env # Null => env.content_type = C8_Expected(req)

C9_UiaaChallenge ==
    /\ pc = "done"
    /\ resp # Null
    /\ resp.kind = "http"
    /\ resp.status = 401
    /\ resp.body.shape = "uiaa"

C9_UiaaResult ==
    /\ result.kind = "UiaaError"
    /\ uiaa_response(result) = [some |-> TRUE, info |-> resp.body.info]

\* C9 as stated: a 401 response with a UIAA-shaped body always gives the
\* UIAA error kind with the body's challenge.
C9_Original == C9_UiaaChallenge => C9_UiaaResult

\* C9 as amended: a 401 response with a UIAA-shaped body gives the UIAA
\* error kind with the body's challenge when the request's endpoint error
\* type is the UIAA response type, and the generic response error kind
\* without a challenge when it is not.
C9_UiaaForUiaaEndpoints ==
    C9_UiaaChallenge =>
        IF req.endpoint_error = "UiaaError"
        THEN C9_UiaaResult
        ELSE result.kind = "RumaResponse" /\ ~uiaa_response(result).some

C9_Witness ==
    /\ C9_UiaaChallenge
    /\ req.endpoint_error = "UiaaError"
    /\ uiaa_response(result) = [some |-> TRUE, info |-> NumUiaaInfos]

\* C10: a request whose scheme is neither AccessToken nor None returns
\* NotClientRequest, with or without a Session, takes no Session guard and
\* does not reach the transport.
C10_NotClientRequest ==
    (req # Null /\ req.scheme \notin {"AccessToken", "None"})
        => /\ ~acquired
           /\ Dispatch \notin rw_readers
           /\ calls = 0
           /\ env = Null
           /\ pc \in {"start", "done"}
           /\ pc = "done" => result = NotClientRequest

C10_Witness ==
    /\ pc = "done"
    /\ req.scheme = "ServerSignatures"
    /\ result = NotClientRequest
    /\ session.some

\* C11: a request whose scheme is None never takes a Session guard, for
\* reading or for writing; its dispatch step is enabled whatever the Session
\* is and also while a writer holds the Session lock; the request handed to
\* the transport carries no access token, and it is handed over whenever
\* building the request succeeded.
C11_NoneTakesNoLock ==
    (req # Null /\ req.scheme = "None")
        => /\ ~acquired
           /\ Dispatch \notin rw_readers
           /\ pc # "guarded"
           /\ pc = "start" => ENABLED without_token
           /\ env # Null => env.access_token = NoToken
           /\ (pc \in {"inflight", "done"} /\ req.into_http_ok)
                 => calls = 1 /\ env # Null
           /\ (pc = "done" /\ ~req.into_http_ok)
                 => calls = 0 /\ result = FromIntoHttpError

\* The request went out without a token while a writer held the lock and
\* no Session was installed whole.
C11_Witness ==
    /\ pc = "inflight"
    /\ req.scheme = "None"
    /\ rw_writer
    /\ wpc = "half"
    /\ ~committed.some
    /\ seen = Null
    /\ env.access_token = NoToken

\* Auth resolution and request serialization of the call succeeded.
C14_Resolved ==
    /\ req.into_http_ok
    /\ \/ req.scheme = "None"
       \/ req.scheme = "AccessToken" /\ seen # Null /\ seen.some

C14_AtMostOnce ==
    /\ calls <= 1
    /\ pc = "inflight" => calls = 1 /\ resp = Null
    /\ pc = "done" =>
          /\ calls = (IF C14_Resolved THEN 1 ELSE 0)
          /\ resp # Null <=> calls = 1

C14_ReturnsAfterOneResult ==
    (pc = "inflight" /\ resp' # resp)
        => /\ pc' = "done"
           /\ calls' = calls
           /\ resp' \in TransportResults
           /\ result' # Null

\* C14: a call of send or upload invokes the transport at most once, once
\* when auth resolution and serialization succeed, and the step that takes
\* the transport's result, whatever it is, returns without another call.
C14_NoRetry ==
    []C14_AtMostOnce /\ [][C14_ReturnsAfterOneResult]_vars

\* An upload returned the transport's error after its one call.
C14_Witness ==
    /\ pc = "done"
    /\ req.via = "upload"
    /\ calls = 1
    /\ resp = TransportError
    /\ result = FromReqwestError

C17_TransientReadLock ==
    /\ (acquired \/ Dispatch \in rw_readers)
          => req # Null /\ req.scheme = "AccessToken"
    /\ Dispatch \in rw_readers <=> pc = "guarded"
    /\ pc = "inflight" => Dispatch \notin rw_readers /\ env # Null
    /\ (pc = "inflight" /\ wpc = "idle" /\ rw_readers = {})
          => ENABLED session_write

\* A step of the dispatch call leaves the Session and the write side of its
\* lock as they are.
C17_DispatchNeverWrites ==
    pc' # pc => /\ session' = session
                /\ committed' = committed
                /\ rw_writer' = rw_writer

\* C17: the dispatch call holds a Session guard only for an AccessToken
\* request and only until the request is built, never while the request is
\* with the transport, when a writer can take the lock; and no step of a
\* dispatch changes the Session.
C17_LockIsTransient ==
    []C17_TransientReadLock /\ [][C17_DispatchNeverWrites]_vars

\* A writer took the lock while an AccessToken request was in flight.
C17_Witness ==
    /\ pc = "inflight"
    /\ req.scheme = "AccessToken"
    /\ acquired
    /\ rw_writer
    /\ wpc = "locked"
    /\ session = seen

\* Error::UiaaError(Http(Known(AuthResponse(info))))
C19_Challenge(i) ==
    Err("UiaaError",
        [layer |-> "Http", server |-> "Known",
         error |-> [variant |-> "AuthResponse", info |-> i]])

\* C19: for every error a dispatch returns, uiaa_response is Some(info)
\* when the error is the UIAA kind wrapping an HTTP-level known server
\* error that is an auth response with that info, and None for every other
\* error, a UIAA kind wrapping a Matrix error, an unknown server error or a
\* deserialization failure included.
C19_UiaaResponseExact ==
    (pc = "done" /\ ~result.ok) =>
        IF \E i \in UiaaInfos : result = C19_Challenge(i)
        THEN \E i \in UiaaInfos :
                /\ result = C19_Challenge(i)
                /\ uiaa_response(result) = [some |-> TRUE, info |-> i]
        ELSE uiaa_response(result) = [some |-> FALSE]

\* A UIAA-kind error that wraps a plain Matrix error has no challenge.
C19_Witness ==
    /\ pc = "done"
    /\ ~result.ok
    /\ result.kind = "UiaaError"
    /\ result.inner.layer = "Http"
    /\ result.inner.server = "Known"
    /\ result.inner.error.variant = "MatrixError"
    /\ uiaa_response(result) = [some |-> FALSE]

C20_ErrorsSurface ==
    pc = "done" =>
        /\ resp = TransportError => result = FromReqwestError
        /\ result.ok =>
              /\ calls = 1
              /\ resp \in HttpResponses
              /\ resp.status < 400
              /\ resp.body.shape = "response"
        /\ (req.scheme = "AccessToken" /\ seen = NoSession)
              => result = AuthenticationRequired
        /\ (C14_Resolved /\ resp \in HttpResponses /\ resp.status >= 400)
              => ~result.ok /\ result.kind \in {"UiaaError", "RumaResponse"}

C20_SessionUntouched ==
    (pc = "inflight" /\ pc' = "done")
        => session' = session /\ committed' = committed

\* C20: when the transport returns an error, send and upload return it as
\* the transport error kind, with nothing decoded, and the step leaves the
\* Session as it is; a call returns Ok only for a response that decodes,
\* so a failed auth, transport or server step is never turned into success.
C20_TransportErrorReturned ==
    []C20_ErrorsSurface /\ [][C20_SessionUntouched]_vars

\* A send of a request with a Session returned the transport's error.
C20_Witness ==
    /\ pc = "done"
    /\ req.via = "send"
    /\ req.scheme = "AccessToken"
    /\ resp = TransportError
    /\ result = FromReqwestError
    /\ session = seen
    /\ session.some

\* ---------------------------------------------------------- claims, store

IsErrValue(r) == ~r.ok /\ r.kind # "panic"

LoadDone(t) == tpc[t] = "done" /\ call[t].op = "load"

SaveDone(t) == tpc[t] = "done" /\ call[t].op = "save"

\* C2: when save_account(A) returned Ok and load_account is then called on
\* the same store with no save in between, it returns an account equal to A.
C2_SaveThenLoad ==
    \A t \in Tasks :
        (LoadDone(t) /\ after_save[t]) => ret[t] = Ok(last_saved)

\* C3: after the first successful save for a (user_id, device_id), every
\* later save returns Ok and the stored pickle and shared flag stay as the
\* first save wrote them.
C3_IdempotentCreation ==
    /\ \A t \in Tasks : SaveDone(t) => ret[t] = Ok(Null)
    /\ \A k \in Keys :
         first_write[k] # Null =>
             /\ Cardinality(RowsOf(rows, k)) = 1
             /\ \A i \in RowsOf(rows, k) : rows[i] = first_write[k].row

\* A later save of an account with another pickle returned Ok.
C3_Witness ==
    \E t \in Tasks :
        /\ SaveDone(t)
        /\ ret[t] = Ok(Null)
        /\ first_write[Key(store)] # Null
        /\ pickle[t] # first_write[Key(store)].row.pickle
        /\ pickle[t].identity # first_write[Key(store)].row.pickle.identity

\* C4: the account loaded has the shared flag of the account whose save
\* created the record.
C4_SharedSurvives ==
    \A t \in Tasks :
        (LoadDone(t) /\ ret[t].ok /\ first_write[Key(store)] # Null)
            => ret[t].value.shared = first_write[Key(store)].account.shared

\* C5: load_account on a store with no record returns an Err value; it
\* does not abort the caller and returns no account.
C5_NoRecordIsErr ==
    \A t \in Tasks :
        (LoadDone(t) /\ RowsOf(rows, Key(store)) = {}) => IsErrValue(ret[t])

\* C6: when the record was saved under a passphrase, load_account on a
\* store opened with another passphrase or with none returns an Err value,
\* never an account, and does not abort the caller.
C6_WrongPassphraseIsErr ==
    \A t \in Tasks :
        (/\ LoadDone(t)
         /\ first_write[Key(store)] # Null
         /\ first_write[Key(store)].row.pickle.mode.encrypted
         /\ get_pickle_mode(store) # first_write[Key(store)].row.pickle.mode)
            => IsErrValue(ret[t])

C12_AtMostOneRecord ==
    \A k \in Keys : Cardinality(RowsOf(rows, k)) <= 1

C12_NeverRemoved ==
    \A k \in Keys : RowsOf(rows, k) # {} => RowsOf(rows', k) # {}

\* C12: in every reachable state the account table holds at most one record
\* per (user_id, device_id), and no step of open, save_account or
\* load_account removes a record that exists.
C12_OneRecordPerKey ==
    []C12_AtMostOneRecord /\ [][C12_NeverRemoved]_vars

\* Both tasks saved different accounts under one key, and the table, which
\* an earlier instance created, holds one record.
C12_Witness ==
    /\ \A t \in Tasks : SaveDone(t) /\ ret[t] = Ok(Null)
    /\ call["t1"].account # call["t2"].account
    /\ last_saved # Null
    /\ Len(rows) = 1
    /\ rows[1].pickle.mode # get_pickle_mode(store)

\* The record of the open store's key was written through an earlier
\* instance, and no save has returned on this one.
C13_SavedEarlier ==
    /\ store # Closed
    /\ first_write[Key(store)] # Null
    /\ last_saved = Null

\* C13: opening a store over a file that already exists succeeds and leaves
\* the records as they are, and load_account on a later instance opened
\* with the same user_id, device_id and passphrase returns the account that
\* was saved through the earlier instance.
C13_ReopenKeepsAccount ==
    \A t \in Tasks :
        /\ (tpc[t] = "done" /\ call[t].op = "open")
              => /\ ret[t] = Ok(Null)
                 /\ \A k \in Keys : first_write[k] # Null =>
                        \E i \in RowsOf(rows, k) : rows[i] = first_write[k].row
        /\ (/\ LoadDone(t)
            /\ C13_SavedEarlier
            /\ get_pickle_mode(store) = first_write[Key(store)].row.pickle.mode)
              => ret[t] = Ok(first_write[Key(store)].account)

\* What does hold of the reopened store: the open succeeds, the record is
\* unchanged, and the account loaded has the saved account's key material.
C13_ReopenKeepsPickle ==
    \A t \in Tasks :
        (/\ LoadDone(t)
         /\ C13_SavedEarlier
         /\ get_pickle_mode(store) = first_write[Key(store)].row.pickle.mode)
            => /\ ret[t].ok
               /\ ret[t].value.identity
                     = first_write[Key(store)].account.identity
               /\ ret[t].value.one_time_keys
                     = first_write[Key(store)].account.one_time_keys

\* The steps in which a statement executes on the connection.
C15_Executing(t) == tpc[t] \in {"create_tables", "save_execute", "load_execute"}

\* C15: a task executes a statement on the connection (create_tables, the
\* SELECT of load_account, the INSERT of save_account) only while it holds
\* the connection mutex, so at most one statement executes at a time.
C15_ConnectionUnderMutex ==
    /\ \A t \in Tasks : C15_Executing(t) => connection = t
    /\ Cardinality({t \in Tasks : C15_Executing(t)}) <= 1

\* One task executes its INSERT while the other waits for the mutex with
\* its query.
C15_Witness ==
    /\ tpc["t1"] = "save_execute"
    /\ connection = "t1"
    /\ tpc["t2"] = "load_lock_connection"
    /\ ~ENABLED load_lock_connection("t2")

\* The task is in save_account between the pickle and the end of the insert.
C16_Saving(t) == tpc[t] \in {"save_lock_connection", "save_execute"}

C16_LockHeld ==
    \A t \in Tasks :
        C16_Saving(t) =>
            /\ account_lock[call[t].account] = t
            /\ pickle[t] = Pickle(account[call[t].account],
                                  get_pickle_mode(store))

C16_NoMutationMeanwhile ==
    \A a \in AccountIds :
        (\E t \in Tasks : C16_Saving(t) /\ call[t].account = a)
            => account'[a] = account[a]

\* C16: from the pickle to the end of the insert save_account holds the
\* account's lock, no step changes that account meanwhile, and the pickle
\* it writes is the pickle of the account as it then is.
C16_SaveIsCriticalSection ==
    []C16_LockHeld /\ [][C16_NoMutationMeanwhile]_vars

\* A save of an account that has generated a key waits for the connection
\* while the other task, which holds the other account's guard, is in
\* load_account.
C16_Witness ==
    /\ tpc["t1"] = "save_lock_connection"
    /\ account[call["t1"].account].one_time_keys = MaxOneTimeKeys
    /\ account_lock[call["t1"].account] = "t1"
    /\ tpc["t2"] = "load_execute"
    /\ holds["t2"] \notin {NoAccount, call["t1"].account}

\* The task is inside a call of the store.
C18_InCall(t) == tpc[t] \notin {"idle", "done"}

\* The call ended: it returned, or it unwound and dropped its guards.
C18_Ended(t) == tpc[t] = "done"

C18_NoSaveUnderOwnGuard ==
    \A t \in Tasks :
        (C18_InCall(t) /\ call[t].op = "save") => holds[t] = NoAccount

====
